---- MODULE Spec2Model ----
(***************************************************************************)
(* PayQuick front end (src/src/App.tsx): the advance-request workflow, the *)
(* fee calculation, the step-up (biometric) modal with its scan timer, the *)
(* session (login/logout, tabs) and the toast notification queue.          *)
(*                                                                         *)
(* Units.  Time is counted in clock units of 1000 ms (the toast timeout of *)
(* 5000 ms is 5 units, the scan delay of 2000 ms is 2 units).  Amounts are *)
(* whole rands; a fee is held in thousandths of a rand so that             *)
(* flat + amt * percentage is exact for the percentages 0.01, 0.015 and    *)
(* 0.005 of the fixtures (10, 15 and 5 per mille).  advanceCap is held in  *)
(* percent.  A JavaScript number is <<v>>, and NaN is <<>>.                *)
(***************************************************************************)
EXTENDS Integers, Sequences, FiniteSets, TLC

VARIABLES
    now,            \* Date.now(), in clock units
    user,           \* App state: the logged-in User, or NoUser (null)
    token,          \* App state: the session token, or NoToken (null)
    isAdmin,        \* App state
    apiToken,       \* ApiService.token
    activeTab,      \* App state
    notifications,  \* App state: the toast queue, in insertion order
    notifTimers,    \* pending setTimeout(removeNotification(id), 5000): id and
                    \* deadline (timers set at one clock value remove one id)
    amount,         \* AdvanceRequest state: the amount input's string
    paymentMethod,  \* AdvanceRequest state
    showBiometric,  \* AdvanceRequest state: the step-up modal is mounted
    scanning,       \* BiometricAuth state
    scanTimers,     \* pending setTimeout(onSuccess, 2000) closures, oldest first
    ledger,         \* the transaction fixtures (mockTransactions)
    stock,          \* the stock of each entry of mockVouchers, by voucher id
    biometricEnabled, \* Settings state: the Biometric Authentication switch
    calc            \* harness of the pure fee function: its input and result

vars == <<now, user, token, isAdmin, apiToken, activeTab, notifications,
          notifTimers, amount, paymentMethod, showBiometric, scanning,
          scanTimers, ledger, stock, biometricEnabled, calc>>

\* ------------------------------------------------------------------ bounds

MaxNow == 6          \* the clock stops here
UnitsPerDay == 2     \* clock units in a calendar day (scaled down)
DaysPerMonth == 11   \* days in a calendar month (scaled down)
MaxNotifs == 2       \* toasts on screen plus scans in flight
MaxScans == 2        \* scan timers in flight
MaxTime == 45        \* the latest timestamp the earnings are computed at
MaxTermLen == 2      \* the longest search term typed from SearchLetters
MaxStock == 2        \* the largest stock of a catalogue drawn for the marketplace

\* ------------------------------------------------------- program constants

NotifTimeout == 5    \* setTimeout(..., 5000) in addNotification
ScanDelay == 2       \* setTimeout(..., 2000) in handleBiometric
DailyHours == 8      \* workingDays * 8 * user.hourlyRate

\* ------------------------------------------------------- JavaScript values

NaN == <<>>
Num(v) == <<v>>
IsNaN(x) == x = NaN

NoUser == [id |-> "null"]
NoToken == "null"
NoEmployer == [id |-> "undefined"]

Digits == <<"0", "1", "2", "3", "4", "5", "6", "7", "8", "9">>

DigitValue(c) == (CHOOSE i \in 1..10 : Digits[i] = c) - 1

IsDigit(c) == \E i \in 1..10 : Digits[i] = c

RECURSIVE digitsValue(_, _)
\* the value of the longest prefix of digits of s, continuing from acc
digitsValue(s, acc) ==
    IF s = <<>> \/ ~IsDigit(Head(s)) THEN acc
    ELSE digitsValue(Tail(s), acc * 10 + DigitValue(Head(s)))

\* parseFloat on the strings an <input type="number"> holds: an optional sign
\* and digits; anything that does not start with a number parses to NaN
parseFloat(s) ==
    IF s = <<>> THEN NaN
    ELSE IF Head(s) = "-"
         THEN IF Len(s) > 1 /\ IsDigit(s[2]) THEN Num(0 - digitsValue(Tail(s), 0)) ELSE NaN
         ELSE IF IsDigit(Head(s)) THEN Num(digitsValue(s, 0)) ELSE NaN

RECURSIVE toStringNat(_)
toStringNat(n) ==
    IF n < 10 THEN <<Digits[n + 1]>>
    ELSE toStringNat(n \div 10) \o <<Digits[(n % 10) + 1]>>

\* Number.prototype.toString on an integer
toString(n) == IF n < 0 THEN <<"-">> \o toStringNat(0 - n) ELSE toStringNat(n)

\* Math.min on two numbers: NaN if either is NaN
MathMin(a, b) ==
    IF IsNaN(a) \/ IsNaN(b) THEN NaN
    ELSE IF a[1] <= b[1] THEN a ELSE b

\* fee.toFixed(2): a value in thousandths rounded to hundredths (half away
\* from zero); NaN stays NaN
toFixed2(x) ==
    IF IsNaN(x) THEN NaN
    ELSE IF x[1] >= 0 THEN Num((x[1] + 5) \div 10)
         ELSE Num(0 - ((5 - x[1]) \div 10))

\* ------------------------------------------------------------ the fixtures

mockEmployers ==
    <<[id |-> "1", payrollDay |-> 25, advanceCap |-> 25,
       feeStructure |-> [flat |-> 25, percentage |-> 10, max |-> 60]],
      [id |-> "2", payrollDay |-> 30, advanceCap |-> 30,
       feeStructure |-> [flat |-> 20, percentage |-> 15, max |-> 50]],
      [id |-> "3", payrollDay |-> 15, advanceCap |-> 20,
       feeStructure |-> [flat |-> 30, percentage |-> 5, max |-> 70]]>>

mockUsers ==
    <<[id |-> "1", employerId |-> "1", hourlyRate |-> 150,
       biometricEnabled |-> TRUE, preferredPaymentMethod |-> "instant"],
      [id |-> "2", employerId |-> "2", hourlyRate |-> 120,
       biometricEnabled |-> FALSE, preferredPaymentMethod |-> "eft"]>>

mockTransactions ==
    <<[id |-> "1", userId |-> "1", amount |-> 500, fee |-> 30, type |-> "advance",
       status |-> "completed", paymentMethod |-> "instant"],
      [id |-> "2", userId |-> "1", amount |-> 50, fee |-> 0, type |-> "voucher",
       status |-> "completed", paymentMethod |-> "instant"]>>

mockVouchers ==
    <<[id |-> "1", category |-> "mobile", provider |-> "Vodacom",
       name |-> "R50 Airtime", price |-> 48, stock |-> 100],
      [id |-> "2", category |-> "mobile", provider |-> "MTN",
       name |-> "1GB Data Bundle", price |-> 95, stock |-> 50],
      [id |-> "3", category |-> "mobile", provider |-> "Telkom",
       name |-> "R100 Airtime", price |-> 96, stock |-> 75],
      [id |-> "4", category |-> "utility", provider |-> "Eskom",
       name |-> "R250 Electricity", price |-> 250, stock |-> 200],
      [id |-> "5", category |-> "utility", provider |-> "City Power",
       name |-> "R500 Prepaid", price |-> 500, stock |-> 150],
      [id |-> "6", category |-> "retail", provider |-> "Checkers",
       name |-> "R200 Grocery Voucher", price |-> 190, stock |-> 80],
      [id |-> "7", category |-> "retail", provider |-> "Pick n Pay",
       name |-> "R300 Shopping Voucher", price |-> 285, stock |-> 60],
      [id |-> "8", category |-> "retail", provider |-> "Woolworths",
       name |-> "R500 Gift Card", price |-> 475, stock |-> 40]>>

\* the name and the provider of each entry of mockVouchers, letter by letter
mockVoucherChars ==
    <<[name |-> <<"R", "5", "0", " ", "A", "i", "r", "t", "i", "m", "e">>,
       provider |-> <<"V", "o", "d", "a", "c", "o", "m">>],
      [name |-> <<"1", "G", "B", " ", "D", "a", "t", "a", " ", "B", "u", "n", "d", "l", "e">>,
       provider |-> <<"M", "T", "N">>],
      [name |-> <<"R", "1", "0", "0", " ", "A", "i", "r", "t", "i", "m", "e">>,
       provider |-> <<"T", "e", "l", "k", "o", "m">>],
      [name |-> <<"R", "2", "5", "0", " ", "E", "l", "e", "c", "t", "r", "i", "c", "i", "t", "y">>,
       provider |-> <<"E", "s", "k", "o", "m">>],
      [name |-> <<"R", "5", "0", "0", " ", "P", "r", "e", "p", "a", "i", "d">>,
       provider |-> <<"C", "i", "t", "y", " ", "P", "o", "w", "e", "r">>],
      [name |-> <<"R", "2", "0", "0", " ", "G", "r", "o", "c", "e", "r", "y", " ", "V", "o", "u", "c", "h", "e", "r">>,
       provider |-> <<"C", "h", "e", "c", "k", "e", "r", "s">>],
      [name |-> <<"R", "3", "0", "0", " ", "S", "h", "o", "p", "p", "i", "n", "g", " ", "V", "o", "u", "c", "h", "e", "r">>,
       provider |-> <<"P", "i", "c", "k", " ", "n", " ", "P", "a", "y">>],
      [name |-> <<"R", "5", "0", "0", " ", "G", "i", "f", "t", " ", "C", "a", "r", "d">>,
       provider |-> <<"W", "o", "o", "l", "w", "o", "r", "t", "h", "s">>]>>

VoucherIds == {mockVouchers[i].id : i \in DOMAIN mockVouchers}

\* the vouchers whose Buy Now button the user clicks
BoughtVouchers == {"1"}

\* the tabs of Navigation the user visits (History and Wellness hold no state)
Tabs == {"dashboard", "advance", "vouchers", "settings"}

\* the radio buttons the user clicks
PaymentMethods == {"instant", "eft"}

\* the Quick Select buttons the user clicks (of R100, R250, R500, R1000)
PresetAmounts == {500}

\* what the user types into the Custom Amount input
CustomInputs == {<<>>, <<"0">>, <<"5", "0", "0", "0">>}

\* the demo accounts of the login screen
Emails == {"thabo@example.com", "admin@payquick.com"}

\* email.includes('admin')
includesAdmin(email) == email = "admin@payquick.com"

\* mockEmployers.find(e => e.id === user?.employerId)
findEmployer(u) ==
    IF u = NoUser \/ ~(\E i \in DOMAIN mockEmployers : mockEmployers[i].id = u.employerId)
    THEN NoEmployer
    ELSE mockEmployers[CHOOSE i \in DOMAIN mockEmployers :
                           mockEmployers[i].id = u.employerId
                           /\ \A j \in 1..(i - 1) : mockEmployers[j].id # u.employerId]

\* --------------------------------------------------------------- earnings

MonthLen == UnitsPerDay * DaysPerMonth

\* new Date(today.getFullYear(), today.getMonth(), 1).getTime()
startOfMonth(t) == t - (t % MonthLen)

\* workingDays taken from the day of the week (today.getDay())
workingDays_getDay(t) == (t \div UnitsPerDay) % 7

\* Math.floor((today.getTime() - startOfMonth.getTime()) / (1000*60*60*24))
workingDays(t) == (t - startOfMonth(t)) \div UnitsPerDay

\* Dashboard.calculateEarnedToDate, in rands
calculateEarnedToDate(u, t) ==
    IF u = NoUser THEN 0 ELSE workingDays(t) * DailyHours * u.hourlyRate

\* employer?.advanceCap || 0.25, in percent
capOrDefault(employer) ==
    IF employer = NoEmployer \/ employer.advanceCap = 0 THEN 25 ELSE employer.advanceCap

\* earned * (employer?.advanceCap || 0.25), in hundredths of a rand
availableOf(earned, employer) == earned * capOrDefault(employer)

\* Dashboard: available, with the employer found for the user
available(u, t) == availableOf(calculateEarnedToDate(u, t), findEmployer(u))

\* -------------------------------------------------------------------- fee

\* calculateFee without its cap: the calculated fee is returned as it is
calculateFee_NoCap(employer, amt) ==
    IF employer = NoEmployer THEN Num(0)
    ELSE IF IsNaN(amt) THEN NaN
    ELSE Num(employer.feeStructure.flat * 1000 + amt[1] * employer.feeStructure.percentage)

\* calculateFee with the flat fee left out of the sum
calculateFee_NoFlat(employer, amt) ==
    IF employer = NoEmployer THEN Num(0)
    ELSE IF IsNaN(amt) THEN NaN
    ELSE MathMin(Num(amt[1] * employer.feeStructure.percentage),
                 Num(employer.feeStructure.max * 1000))

\* AdvanceRequest.calculateFee with the employer of its closure; amt is a
\* number in rands, the result a number in thousandths of a rand
calculateFee(employer, amt) ==
    IF employer = NoEmployer THEN Num(0)
    ELSE LET fs == employer.feeStructure
             calculated == IF IsNaN(amt) THEN NaN
                           ELSE Num(fs.flat * 1000 + amt[1] * fs.percentage)
         IN  MathMin(calculated, Num(fs.max * 1000))

\* ---------------------------------------------------------- notifications

ApprovedMsg(amt, fee) == <<"Advance approved", amt, toFixed2(fee)>>
LoginMsg == <<"Login successful!">>
LoginFailedMsg == <<"Login failed. Please try again.">>
LogoutMsg == <<"Logged out successfully">>
PurchasedMsg(voucher) == <<"purchased successfully!", voucher.name>>

\* room for one more toast: the toasts on screen and the expiry timers pending,
\* counting the scans in flight that will push one
Room ==
    /\ Len(notifications) + Len(scanTimers) < MaxNotifs
    /\ Cardinality(notifTimers) + Len(scanTimers) < MaxNotifs

\* App.addNotification
addNotification(type, message) ==
    LET notif == [id |-> toString(now), type |-> type, message |-> message,
                  timestamp |-> now, read |-> FALSE]
    IN  /\ notifications' = Append(notifications, notif)
        /\ notifTimers' = notifTimers \cup {[id |-> notif.id, at |-> now + NotifTimeout]}

\* removal by prev.splice(prev.findIndex(n => n.id === id), 1): an id that is
\* not found (index -1) takes the last notification off the queue
filterOut_splice(q, id) ==
    IF \E i \in DOMAIN q : q[i].id = id
    THEN SelectSeq(q, LAMBDA n : n.id # id)
    ELSE SubSeq(q, 1, Len(q) - 1)

\* prev.filter(n => n.id !== id)
filterOut(q, id) == SelectSeq(q, LAMBDA n : n.id # id)

\* App.removeNotification, called by a click on a toast
removeNotification ==
    /\ \E i \in DOMAIN notifications :
          notifications' = filterOut(notifications, notifications[i].id)
    /\ UNCHANGED <<now, user, token, isAdmin, apiToken, activeTab, notifTimers,
                   amount, paymentMethod, showBiometric, scanning, scanTimers,
                   ledger, stock, biometricEnabled, calc>>

\* expiry timers that are held back while the step-up modal is open
NotifTimerFires_WhenIdle ==
    /\ ~showBiometric
    /\ \E t \in notifTimers :
          /\ t.at <= now
          /\ notifications' = filterOut(notifications, t.id)
          /\ notifTimers' = notifTimers \ {t}
    /\ UNCHANGED <<now, user, token, isAdmin, apiToken, activeTab, amount,
                   paymentMethod, showBiometric, scanning, scanTimers, ledger, stock, biometricEnabled, calc>>

\* the timer of addNotification fires: removeNotification(notif.id)
NotifTimerFires ==
    /\ \E t \in notifTimers :
          /\ t.at <= now
          /\ notifications' = filterOut(notifications, t.id)
          /\ notifTimers' = notifTimers \ {t}
    /\ UNCHANGED <<now, user, token, isAdmin, apiToken, activeTab, amount,
                   paymentMethod, showBiometric, scanning, scanTimers, ledger, stock, biometricEnabled, calc>>

\* ------------------------------------------------------------------ clock

TimerDue ==
    \/ \E t \in notifTimers : t.at <= now
    \/ scanTimers # <<>> /\ Head(scanTimers).at <= now

\* the clock advances one unit; a timer that is due fires first
Tick ==
    /\ now < MaxNow
    /\ ~TimerDue
    /\ now' = now + 1
    /\ UNCHANGED <<user, token, isAdmin, apiToken, activeTab, notifications,
                   notifTimers, amount, paymentMethod, showBiometric, scanning,
                   scanTimers, ledger, stock, biometricEnabled, calc>>

\* ---------------------------------------------------------------- session

\* every scan closure in flight now belongs to an unmounted AdvanceRequest
orphaned(timers) ==
    [i \in DOMAIN timers |-> [timers[i] EXCEPT !.ar = FALSE, !.bio = FALSE]]

\* AdvanceRequest (and the BiometricAuth it holds) unmounts: its state is gone,
\* a later mount starts from the useState defaults
unmountAdvance ==
    /\ amount' = <<>>
    /\ paymentMethod' = "instant"
    /\ showBiometric' = FALSE
    /\ scanning' = FALSE
    /\ scanTimers' = orphaned(scanTimers)

\* ---------------------------------------------------------------- strings

UpperCase == <<"A", "B", "C", "D", "E", "F", "G", "H", "I", "J", "K", "L", "M", "N", "O", "P", "Q", "R", "S", "T", "U", "V", "W", "X", "Y", "Z">>
LowerCase == <<"a", "b", "c", "d", "e", "f", "g", "h", "i", "j", "k", "l", "m", "n", "o", "p", "q", "r", "s", "t", "u", "v", "w", "x", "y", "z">>

\* String.prototype.toLowerCase without its conversion: the string as it is
toLowerCase_Identity(s) == s

\* String.prototype.toLowerCase
toLowerCase(s) ==
    [i \in DOMAIN s |->
        IF \E k \in DOMAIN UpperCase : UpperCase[k] = s[i]
        THEN LowerCase[CHOOSE k \in DOMAIN UpperCase : UpperCase[k] = s[i]]
        ELSE s[i]]

\* String.prototype.includes
includes(s, sub) ==
    \E i \in 0..(Len(s) - Len(sub)) : SubSeq(s, i + 1, i + Len(sub)) = sub

\* ------------------------------------------------------------ ApiService

\* the endpoints the methods of ApiService pass to request
LoginEndpoint == <<"/", "a", "u", "t", "h", "/", "l", "o", "g", "i", "n">>
TransactionsEndpoint(userId) == <<"/", "t", "r", "a", "n", "s", "a", "c", "t", "i", "o", "n", "s", "/">> \o userId
AdvanceEndpoint == <<"/", "t", "r", "a", "n", "s", "a", "c", "t", "i", "o", "n", "s", "/", "a", "d", "v", "a", "n", "c", "e">>
VouchersEndpoint(query) == <<"/", "v", "o", "u", "c", "h", "e", "r", "s">> \o query
PurchaseEndpoint == <<"/", "v", "o", "u", "c", "h", "e", "r", "s", "/", "p", "u", "r", "c", "h", "a", "s", "e">>
WellnessEndpoint(userId) == <<"/", "w", "e", "l", "l", "n", "e", "s", "s", "/">> \o userId

UserIdStrings == {<<"1">>, <<"2">>}

\* category ? `?category=${category}` : ''
CategoryQueries ==
    {<<>>, <<"?", "c", "a", "t", "e", "g", "o", "r", "y", "=", "m", "o", "b", "i", "l", "e">>,
     <<"?", "c", "a", "t", "e", "g", "o", "r", "y", "=", "r", "e", "t", "a", "i", "l">>}

Endpoints ==
    {LoginEndpoint, AdvanceEndpoint, PurchaseEndpoint}
        \cup {TransactionsEndpoint(u) : u \in UserIdStrings}
        \cup {VouchersEndpoint(q) : q \in CategoryQueries}
        \cup {WellnessEndpoint(u) : u \in UserIdStrings}

\* what the backend answers with status 200 and a body that is JSON: to a
\* login the second user or a refusal, to another call some body
BackendBodies(endpoint) ==
    IF endpoint = LoginEndpoint
    THEN {[success |-> TRUE, user |-> mockUsers[2], token |-> "jwt"],
          [success |-> FALSE, user |-> NoUser, token |-> NoToken]}
    ELSE {[success |-> TRUE, backend |-> TRUE]}

\* how fetch and response.json() end: fetch rejects (no network), or it
\* resolves with a status and a body that parses or does not
BackendOutcomes(endpoint) ==
    {[fetch |-> "rejected", status |-> 0, json |-> "none", body |-> [none |-> TRUE]]}
        \cup {[fetch |-> "resolved", status |-> st, json |-> "valid", body |-> [none |-> TRUE]] :
                 st \in {401, 404, 500, 503}}
        \cup {[fetch |-> "resolved", status |-> 200, json |-> "invalid", body |-> [none |-> TRUE]]}
        \cup {[fetch |-> "resolved", status |-> 200, json |-> "valid", body |-> b] :
                 b \in BackendBodies(endpoint)}

\* ApiService.getMockResponse (an array is held in the field array)
getMockResponse(endpoint) ==
    IF includes(endpoint, <<"/", "a", "u", "t", "h", "/", "l", "o", "g", "i", "n">>)
    THEN [token |-> "mock-jwt-token", user |-> mockUsers[1], success |-> TRUE]
    ELSE IF includes(endpoint, <<"/", "v", "o", "u", "c", "h", "e", "r", "s">>)
    THEN [array |-> mockVouchers]
    ELSE IF includes(endpoint, <<"/", "t", "r", "a", "n", "s", "a", "c", "t", "i", "o", "n", "s">>)
    THEN [array |-> mockTransactions]
    ELSE IF includes(endpoint, <<"/", "w", "e", "l", "l", "n", "e", "s", "s", "-", "s", "c", "o", "r", "e">>)
    THEN [score |-> 750, maxScore |-> 850]
    ELSE [success |-> TRUE]

\* response.ok
responseOk(outcome) == outcome.status >= 200 /\ outcome.status <= 299

\* ApiService.request without its catch: a failure rejects the promise
request_NoCatch(endpoint, outcome) ==
    IF outcome.fetch = "resolved" /\ responseOk(outcome) /\ outcome.json = "valid"
    THEN [rejected |-> FALSE, value |-> outcome.body]
    ELSE [rejected |-> TRUE, value |-> [none |-> TRUE]]

\* ApiService.request: what the promise settles to
request(endpoint, outcome) ==
    IF outcome.fetch = "resolved" /\ responseOk(outcome) /\ outcome.json = "valid"
    THEN [rejected |-> FALSE, value |-> outcome.body]
    ELSE [rejected |-> FALSE, value |-> getMockResponse(endpoint)]

\* what ApiService.login settles to: an answer of the backend (the second
\* user, or a refusal), or the fixture of getMockResponse when the request
\* fails (the first user)
LoginResponses ==
    {request(LoginEndpoint, outcome) : outcome \in BackendOutcomes(LoginEndpoint)}

\* App.login after await apiService.login(email, password)
loginWith(email, response) ==
    IF response.rejected
    THEN /\ Room
         /\ addNotification("error", LoginFailedMsg)
         /\ UNCHANGED <<user, token, apiToken, isAdmin>>
    ELSE IF response.value.success
    THEN /\ Room
         /\ user' = response.value.user
         /\ token' = response.value.token
         /\ apiToken' = response.value.token
         /\ isAdmin' = includesAdmin(email)
         /\ addNotification("success", LoginMsg)
    ELSE UNCHANGED <<user, token, apiToken, isAdmin, notifications, notifTimers>>

\* App.login
login ==
    /\ user = NoUser
    /\ \E email \in Emails, response \in LoginResponses : loginWith(email, response)
    /\ UNCHANGED <<now, activeTab, amount, paymentMethod, showBiometric, scanning,
                   scanTimers, ledger, stock, biometricEnabled, calc>>

\* App.logout, from the Header or the AdminDashboard
logout ==
    /\ user # NoUser
    /\ Room
    /\ user' = NoUser
    /\ token' = NoToken
    /\ isAdmin' = FALSE
    /\ apiToken' = NoToken
    /\ activeTab' = "dashboard"
    /\ addNotification("info", LogoutMsg)
    /\ unmountAdvance
    /\ biometricEnabled' = FALSE
    /\ UNCHANGED <<now, ledger, stock, calc>>

UserScreen == user # NoUser /\ ~isAdmin

\* Navigation: setActiveTab(tab.id); Settings mounts with
\* useState(user?.biometricEnabled || false) and loses its state on unmount
setActiveTab ==
    /\ UserScreen
    /\ \E tab \in Tabs \ {activeTab} : activeTab' = tab
    /\ IF activeTab = "advance"
       THEN unmountAdvance
       ELSE UNCHANGED <<amount, paymentMethod, showBiometric, scanning, scanTimers>>
    /\ biometricEnabled' = (activeTab' = "settings" /\ user.biometricEnabled)
    /\ UNCHANGED <<now, user, token, isAdmin, apiToken, notifications, notifTimers,
                   ledger, stock, calc>>

\* --------------------------------------------------------------- settings

SettingsScreen == UserScreen /\ activeTab = "settings"

\* the Biometric Authentication switch: setBiometricEnabled(e.target.checked)
setBiometricEnabled ==
    /\ SettingsScreen
    /\ biometricEnabled' = ~biometricEnabled
    /\ UNCHANGED <<now, user, token, isAdmin, apiToken, activeTab, notifications,
                   notifTimers, amount, paymentMethod, showBiometric, scanning,
                   scanTimers, ledger, stock, calc>>

\* ------------------------------------------------------- advance request

AdvanceScreen == UserScreen /\ activeTab = "advance"

\* AdvanceRequest.handlePresetAmount: setAmount(preset.toString())
handlePresetAmount ==
    /\ AdvanceScreen
    /\ \E preset \in PresetAmounts : amount' = toString(preset)
    /\ UNCHANGED <<now, user, token, isAdmin, apiToken, activeTab, notifications,
                   notifTimers, paymentMethod, showBiometric, scanning, scanTimers,
                   ledger, stock, biometricEnabled, calc>>

\* the Custom Amount input's onChange: setAmount(e.target.value)
setAmount ==
    /\ AdvanceScreen
    /\ \E value \in CustomInputs : amount' = value
    /\ UNCHANGED <<now, user, token, isAdmin, apiToken, activeTab, notifications,
                   notifTimers, paymentMethod, showBiometric, scanning, scanTimers,
                   ledger, stock, biometricEnabled, calc>>

\* the payment radio buttons' onChange
setPaymentMethod ==
    /\ AdvanceScreen
    /\ \E method \in PaymentMethods : paymentMethod' = method
    /\ UNCHANGED <<now, user, token, isAdmin, apiToken, activeTab, notifications,
                   notifTimers, amount, showBiometric, scanning, scanTimers,
                   ledger, stock, biometricEnabled, calc>>

\* AdvanceRequest.processAdvance as closed over `amt` (the amount string) and
\* `employer`; `mounted` says whether the AdvanceRequest whose render made the
\* closure is still mounted, so that its setAmount('') takes effect
processAdvance(amt, employer, mounted) ==
    /\ addNotification("success",
                       ApprovedMsg(parseFloat(amt), calculateFee(employer, parseFloat(amt))))
    /\ amount' = IF mounted THEN <<>> ELSE amount

\* the Request Advance button is not disabled
submitEnabled ==
    /\ amount # <<>>
    /\ ~(~IsNaN(parseFloat(amount)) /\ parseFloat(amount)[1] <= 0)

\* handleSubmit without the biometricEnabled test: it always processes
handleSubmit_NoGate ==
    /\ AdvanceScreen
    /\ submitEnabled
    /\ Room
    /\ processAdvance(amount, findEmployer(user), TRUE)
    /\ UNCHANGED <<now, user, token, isAdmin, apiToken, activeTab, paymentMethod,
                   showBiometric, scanning, scanTimers, ledger, stock, biometricEnabled, calc>>

\* handleSubmit that opens the step-up modal and processes the advance
\* without waiting for it
handleSubmit_Optimistic ==
    /\ AdvanceScreen
    /\ submitEnabled
    /\ Room
    /\ processAdvance(amount, findEmployer(user), TRUE)
    /\ showBiometric' = user.biometricEnabled
    /\ UNCHANGED <<now, user, token, isAdmin, apiToken, activeTab, paymentMethod,
                   scanning, scanTimers, ledger, stock, biometricEnabled, calc>>

\* AdvanceRequest.handleSubmit
handleSubmit ==
    /\ AdvanceScreen
    /\ submitEnabled
    /\ IF user.biometricEnabled
       THEN /\ showBiometric' = TRUE
            /\ UNCHANGED <<notifications, notifTimers, amount>>
       ELSE /\ Room
            /\ processAdvance(amount, findEmployer(user), TRUE)
            /\ UNCHANGED showBiometric
    /\ UNCHANGED <<now, user, token, isAdmin, apiToken, activeTab, paymentMethod,
                   scanning, scanTimers, ledger, stock, biometricEnabled, calc>>

\* BiometricAuth.handleBiometric: the Scan Fingerprint button.  The timer keeps
\* the onSuccess of the render it was clicked in: amount and employer as they
\* were then.  ar/bio: the AdvanceRequest/BiometricAuth that made the closure
\* is still mounted; cancelled: that BiometricAuth was closed by Cancel.
handleBiometric ==
    /\ AdvanceScreen
    /\ showBiometric
    /\ ~scanning
    /\ Len(scanTimers) < MaxScans
    /\ Room
    /\ scanning' = TRUE
    /\ scanTimers' = Append(scanTimers,
                            [at |-> now + ScanDelay, amount |-> amount,
                             employer |-> findEmployer(user), ar |-> TRUE,
                             bio |-> TRUE, cancelled |-> FALSE])
    /\ UNCHANGED <<now, user, token, isAdmin, apiToken, activeTab, notifications,
                   notifTimers, amount, paymentMethod, showBiometric, ledger, stock, biometricEnabled, calc>>

\* the BiometricAuth in flight is closed by its Cancel button
cancelledBy(timers) ==
    [i \in DOMAIN timers |->
        IF timers[i].bio
        THEN [timers[i] EXCEPT !.bio = FALSE, !.cancelled = TRUE]
        ELSE timers[i]]

\* onCancel that also resets the form: setAmount('') with the modal's close
onCancel_ClearsAmount ==
    /\ AdvanceScreen
    /\ showBiometric
    /\ showBiometric' = FALSE
    /\ scanning' = FALSE
    /\ scanTimers' = cancelledBy(scanTimers)
    /\ amount' = <<>>
    /\ UNCHANGED <<now, user, token, isAdmin, apiToken, activeTab, notifications,
                   notifTimers, paymentMethod, ledger, stock, biometricEnabled, calc>>

\* the modal's Cancel button: onCancel = () => setShowBiometric(false)
onCancel ==
    /\ AdvanceScreen
    /\ showBiometric
    /\ showBiometric' = FALSE
    /\ scanning' = FALSE
    /\ scanTimers' = cancelledBy(scanTimers)
    /\ UNCHANGED <<now, user, token, isAdmin, apiToken, activeTab, notifications,
                   notifTimers, amount, paymentMethod, ledger, stock, biometricEnabled, calc>>

\* the BiometricAuth of the remaining closures is unmounted
closedModal(timers) ==
    [i \in DOMAIN timers |-> [timers[i] EXCEPT !.bio = FALSE]]

\* the scan timer fires: setScanning(false); onSuccess(), which is
\* setShowBiometric(false); processAdvance() of the closure
ScanTimerFires ==
    /\ scanTimers # <<>>
    /\ LET t == Head(scanTimers)
       IN  /\ t.at <= now
           /\ processAdvance(t.amount, t.employer, t.ar)
           /\ IF t.ar
              THEN /\ showBiometric' = FALSE
                   /\ scanning' = FALSE
                   /\ scanTimers' = closedModal(Tail(scanTimers))
              ELSE /\ UNCHANGED <<showBiometric, scanning>>
                   /\ scanTimers' = Tail(scanTimers)
    /\ UNCHANGED <<now, user, token, isAdmin, apiToken, activeTab, paymentMethod,
                   ledger, stock, biometricEnabled, calc>>

\* ------------------------------------------------------- voucher search

Categories == {"all", "mobile", "utility", "retail"}

\* VoucherMarketplace.filteredVouchers: the indices of mockVouchers kept by
\* mockVouchers.filter(...), in the order of the filter's result
filteredVouchers(category, searchTerm) ==
    SelectSeq([i \in DOMAIN mockVouchers |-> i],
              LAMBDA i :
                LET v == mockVouchers[i]
                    matchesCategory == category = "all" \/ v.category = category
                    matchesSearch ==
                        \/ includes(toLowerCase(mockVoucherChars[i].name),
                                    toLowerCase(searchTerm))
                        \/ includes(toLowerCase(mockVoucherChars[i].provider),
                                    toLowerCase(searchTerm))
                IN  matchesCategory /\ matchesSearch)

\* ---------------------------------------------------- voucher marketplace

VoucherScreen == UserScreen /\ activeTab = "vouchers"

\* VoucherMarketplace.handlePurchase(voucher), the onClick of Buy Now
handlePurchaseOf(voucher) ==
    /\ VoucherScreen
    /\ Room
    /\ addNotification("success", PurchasedMsg(voucher))
    /\ UNCHANGED <<now, user, token, isAdmin, apiToken, activeTab, amount,
                   paymentMethod, showBiometric, scanning, scanTimers, ledger,
                   stock, biometricEnabled, calc>>

handlePurchase ==
    \E i \in DOMAIN mockVouchers :
        /\ mockVouchers[i].id \in BoughtVouchers
        /\ handlePurchaseOf(mockVouchers[i])

\* ---------------------------------------------------------- specification

NoCalc == [employer |-> NoEmployer, amt |-> NaN, done |-> FALSE, out |-> NaN]

\* the application as constructed (useState defaults), opened at the start of
\* a month
InitApp ==
    /\ now = 0
    /\ user = NoUser
    /\ token = NoToken
    /\ isAdmin = FALSE
    /\ apiToken = NoToken
    /\ activeTab = "dashboard"
    /\ notifications = <<>>
    /\ notifTimers = {}
    /\ amount = <<>>
    /\ paymentMethod = "instant"
    /\ showBiometric = FALSE
    /\ scanning = FALSE
    /\ scanTimers = <<>>
    /\ ledger = mockTransactions
    /\ biometricEnabled = FALSE

\* the catalogue as the module defines it
mockStock == [id \in VoucherIds |->
                 mockVouchers[CHOOSE i \in DOMAIN mockVouchers :
                                  mockVouchers[i].id = id].stock]

Init == InitApp /\ stock = mockStock /\ calc = NoCalc

Next ==
    \/ Tick
    \/ login
    \/ logout
    \/ setActiveTab
    \/ handlePresetAmount
    \/ setAmount
    \/ setPaymentMethod
    \/ handleSubmit
    \/ handleBiometric
    \/ onCancel
    \/ handlePurchase
    \/ setBiometricEnabled
    \/ ScanTimerFires
    \/ NotifTimerFires
    \/ removeNotification

Spec == Init /\ [][Next]_vars

\* the event loop runs every timer that is due, and time passes
SpecLive ==
    /\ Init
    /\ [][Next]_vars
    /\ WF_vars(Tick)
    /\ WF_vars(NotifTimerFires)
    /\ WF_vars(ScanTimerFires)

\* ------------------------------------------------ the fee function alone

FeeFlats == {0, 20, 25, 70}
FeePercentages == {0, 10, 15}
FeeMaxes == {0, 50, 60}

\* an employer per fee structure, and AdvanceRequest without an employer
FeeEmployers ==
    {[id |-> "e", payrollDay |-> 25, advanceCap |-> 25,
      feeStructure |-> [flat |-> f, percentage |-> p, max |-> m]] :
        f \in FeeFlats, p \in FeePercentages, m \in FeeMaxes}
    \cup {NoEmployer}

\* the numbers calculateFee is called with, in rands
FeeAmounts == {NaN, Num(0 - 10), Num(0), Num(1), Num(500), Num(5000)}

InitFee ==
    /\ InitApp
    /\ stock = mockStock
    /\ calc \in {[employer |-> e, amt |-> a, done |-> FALSE, out |-> NaN] :
                    e \in FeeEmployers, a \in FeeAmounts}

\* calculateFee(amt) is called
applyFee ==
    /\ ~calc.done
    /\ calc' = [calc EXCEPT !.done = TRUE, !.out = calculateFee(calc.employer, calc.amt)]
    /\ UNCHANGED <<now, user, token, isAdmin, apiToken, activeTab, notifications,
                   notifTimers, amount, paymentMethod, showBiometric, scanning,
                   scanTimers, ledger, stock, biometricEnabled>>

NextFee == applyFee

SpecFee == InitFee /\ [][NextFee]_vars

\* ------------------------------------------- the earnings function alone

EarnUsers == {NoUser} \cup {mockUsers[i] : i \in DOMAIN mockUsers}
EarnCaps == {0, 20, 25, 30, 100}

\* an employer per advanceCap (in percent), and Dashboard without an employer
EarnEmployers ==
    {NoEmployer} \cup
    {[id |-> "e", payrollDay |-> 25, advanceCap |-> c,
      feeStructure |-> [flat |-> 25, percentage |-> 10, max |-> 60]] : c \in EarnCaps}

\* Dashboard is rendered at two times, t1 <= t2
InitEarn ==
    /\ InitApp
    /\ stock = mockStock
    /\ calc \in {[u |-> u, employer |-> e, t1 |-> t1, t2 |-> t2, done |-> FALSE,
                   earned1 |-> 0, available1 |-> 0, earned2 |-> 0, available2 |-> 0] :
                    u \in EarnUsers, e \in EarnEmployers,
                    t1 \in 0..MaxTime, t2 \in 0..MaxTime}
    /\ calc.t1 <= calc.t2

\* const earned = calculateEarnedToDate(); const available = earned * ...
applyEarn ==
    /\ ~calc.done
    /\ LET e1 == calculateEarnedToDate(calc.u, calc.t1)
           e2 == calculateEarnedToDate(calc.u, calc.t2)
       IN  calc' = [calc EXCEPT !.done = TRUE,
                                !.earned1 = e1,
                                !.available1 = availableOf(e1, calc.employer),
                                !.earned2 = e2,
                                !.available2 = availableOf(e2, calc.employer)]
    /\ UNCHANGED <<now, user, token, isAdmin, apiToken, activeTab, notifications,
                   notifTimers, amount, paymentMethod, showBiometric, scanning,
                   scanTimers, ledger, stock, biometricEnabled>>

NextEarn == applyEarn

SpecEarn == InitEarn /\ [][NextEarn]_vars

\* ------------------------------------------------------ ApiService alone

\* a method of ApiService is called while the backend answers in some way
InitApi ==
    /\ InitApp
    /\ stock = mockStock
    /\ calc \in {[endpoint |-> e, outcome |-> o, done |-> FALSE,
                   out |-> [rejected |-> FALSE, value |-> [none |-> TRUE]]] :
                    e \in Endpoints, o \in UNION {BackendOutcomes(x) : x \in Endpoints}}
    /\ calc.outcome \in BackendOutcomes(calc.endpoint)

\* the promise of request settles
applyRequest ==
    /\ ~calc.done
    /\ calc' = [calc EXCEPT !.done = TRUE, !.out = request(calc.endpoint, calc.outcome)]
    /\ UNCHANGED <<now, user, token, isAdmin, apiToken, activeTab, notifications,
                   notifTimers, amount, paymentMethod, showBiometric, scanning,
                   scanTimers, ledger, stock, biometricEnabled>>

\* App.login resumes after its await with what apiService.login settled to
loginResumes ==
    /\ calc.done
    /\ calc.endpoint = LoginEndpoint
    /\ user = NoUser
    /\ \E email \in Emails : loginWith(email, calc.out)
    /\ UNCHANGED <<now, activeTab, amount, paymentMethod, showBiometric, scanning,
                   scanTimers, ledger, stock, biometricEnabled, calc>>

NextApi ==
    \/ applyRequest
    \/ loginResumes

SpecApi == InitApi /\ [][NextApi]_vars

\* ---------------------------------------------- the search function alone

\* the letters the search terms are made of
SearchLetters == {"r", "R", "5", "0", "m", "T", " ", "e"}

\* what the user types into the search box: every term of up to MaxTermLen
\* letters, and some words
SearchTerms ==
    UNION {[1..n -> SearchLetters] : n \in 0..MaxTermLen}
        \cup {<<"m", "t", "n">>, <<"A", "I", "R", "t", "i", "m", "e">>,
               <<"p", "i", "c", "k", " ", "N">>, <<"v", "o", "u", "c", "h", "e", "r", "s">>}

InitSearch ==
    /\ InitApp
    /\ stock = mockStock
    /\ calc \in {[category |-> c, searchTerm |-> t, done |-> FALSE, out |-> <<>>] :
                    c \in Categories, t \in SearchTerms}

\* VoucherMarketplace renders: filteredVouchers is computed
applySearch ==
    /\ ~calc.done
    /\ calc' = [calc EXCEPT !.done = TRUE,
                            !.out = filteredVouchers(calc.category, calc.searchTerm)]
    /\ UNCHANGED <<now, user, token, isAdmin, apiToken, activeTab, notifications,
                   notifTimers, amount, paymentMethod, showBiometric, scanning,
                   scanTimers, ledger, stock, biometricEnabled>>

NextSearch == applySearch

SpecSearch == InitSearch /\ [][NextSearch]_vars

\* ------------------------------------- the marketplace over small stocks

\* handlePurchase takes the voucher it is given: the application is run over
\* catalogues whose bought vouchers hold 0..MaxStock items; calc keeps the
\* catalogue the run started from
InitVoucher ==
    /\ InitApp
    /\ stock \in {[id \in VoucherIds |->
                      IF id \in BoughtVouchers THEN k[id] ELSE mockStock[id]] :
                  k \in [BoughtVouchers -> 0..MaxStock]}
    /\ calc = [stock0 |-> stock]

SpecVoucher == InitVoucher /\ [][Next]_vars

\* ----------------------------------------------------------------- claims

\* a step that pushes the toast of an approved advance
ApprovalStep ==
    /\ Len(notifications') = Len(notifications) + 1
    /\ SubSeq(notifications', 1, Len(notifications)) = notifications
    /\ notifications'[Len(notifications')].message[1] = "Advance approved"

\* the amount (a number, in rands) and the fee (in cents) of that toast
approvedAmt == notifications'[Len(notifications')].message[2]
approvedFee == notifications'[Len(notifications')].message[3]

\* a step that pushes a toast of type error
ErrorStep ==
    /\ Len(notifications') = Len(notifications) + 1
    /\ notifications'[Len(notifications')].type = "error"

HasApprovedToast ==
    \E i \in DOMAIN notifications : notifications[i].message[1] = "Advance approved"

\* C1: when the user has cancelled the step-up modal while its scan was in
\* progress, the scan's late success is discarded: the timer's firing pushes
\* no toast (nothing is approved) and adds nothing to the ledger.
C1_LateSuccessDiscarded ==
    [][(ScanTimerFires /\ Head(scanTimers).cancelled)
         => (notifications' = notifications /\ ledger' = ledger)]_vars

\* C2: a submission proceeds (to the step-up modal or to approval) only with
\* 0 < amount <= the advanceable ceiling of the user at that time.
C2_SubmitWithinCeiling ==
    [][handleSubmit
         => LET amt == parseFloat(amount)
            IN  /\ ~IsNaN(amt)
                /\ amt[1] > 0
                /\ amt[1] * 100 <= available(user, now)]_vars

\* C3: whenever an advance is approved for the logged-in user, the approved
\* amount is at most the advanceable ceiling at the time of the approval.
C3_ApprovedWithinCeiling ==
    [][(ApprovalStep /\ user # NoUser)
         => /\ ~IsNaN(approvedAmt)
            /\ approvedAmt[1] * 100 <= available(user, now)]_vars

\* C4: a submission of a user with biometricEnabled opens the step-up modal
\* and approves nothing; a submission of a user without it is approved at
\* once, and such a user never has the modal on screen.
C4_StepUpGate ==
    /\ [](user # NoUser /\ ~user.biometricEnabled => ~showBiometric)
    /\ [][handleSubmit
            => IF user.biometricEnabled
               THEN /\ showBiometric'
                    /\ notifications' = notifications
                    /\ ledger' = ledger
               ELSE /\ ~showBiometric'
                    /\ ApprovalStep]_vars

C4_Witness ==
    /\ user = mockUsers[2]
    /\ HasApprovedToast
    /\ ~showBiometric
    /\ scanTimers = <<>>

\* C5: a request submitted while the step-up modal of an earlier request is
\* open is rejected: an error toast is pushed and the open workflow is left
\* as it is.
C5_SecondRequestRejected ==
    (AdvanceScreen /\ showBiometric /\ submitEnabled)
        => ENABLED (handleSubmit /\ ErrorStep)

\* C6: Cancel closes the step-up modal and leaves the amount and the payment
\* method of the form as they were, so the request can be submitted again.
C6_CancelKeepsDraft ==
    [][onCancel
         => /\ ~showBiometric'
            /\ amount' = amount
            /\ paymentMethod' = paymentMethod
            /\ (submitEnabled => submitEnabled')]_vars

C6_Witness ==
    /\ AdvanceScreen
    /\ ~showBiometric
    /\ amount = toString(500)
    /\ paymentMethod = "eft"
    /\ \E i \in DOMAIN scanTimers : scanTimers[i].cancelled /\ scanTimers[i].ar

\* C7: every approval appends one Transaction of type advance, completed, with
\* the approved amount, its fee and the payment method, to the ledger, along
\* with the toast that carries that fee.
C7_ApprovalRecorded ==
    [][ApprovalStep
         => /\ Len(ledger') = Len(ledger) + 1
            /\ SubSeq(ledger', 1, Len(ledger)) = ledger
            /\ LET tx == ledger'[Len(ledger')]
               IN  /\ tx.type = "advance"
                   /\ tx.status = "completed"
                   /\ Num(tx.amount) = approvedAmt
                   /\ Num(tx.fee * 100) = approvedFee]_vars

\* the fee function was called with a fee structure and a positive amount
FeeCase ==
    /\ calc.done
    /\ calc.employer # NoEmployer
    /\ ~IsNaN(calc.amt)
    /\ calc.amt[1] > 0

\* C8: for a positive amount the fee is flat + amount * percentage where that
\* is below max and max otherwise; flat 25, percentage 0.01, max 60 and
\* amount 500 give the fee 30 and 530 to repay.
C8_FeeFormula ==
    FeeCase =>
        LET fs == calc.employer.feeStructure
            sum == fs.flat * 1000 + calc.amt[1] * fs.percentage
        IN  /\ ~IsNaN(calc.out)
            /\ calc.out[1] = IF sum < fs.max * 1000 THEN sum ELSE fs.max * 1000
            /\ (fs = [flat |-> 25, percentage |-> 10, max |-> 60] /\ calc.amt = Num(500)
                  => calc.out[1] = 30 * 1000 /\ calc.amt[1] * 1000 + calc.out[1] = 530 * 1000)

C8_Witness ==
    /\ FeeCase
    /\ calc.employer.feeStructure = [flat |-> 25, percentage |-> 10, max |-> 60]
    /\ calc.amt = Num(500)
    /\ calc.out = Num(30 * 1000)

ApprovedFeeWithinMax ==
    [][(ApprovalStep /\ ~IsNaN(approvedAmt) /\ approvedAmt[1] > 0)
         => LET employer == IF handleSubmit THEN findEmployer(user)
                            ELSE Head(scanTimers).employer
            IN  /\ ~IsNaN(approvedFee)
                /\ approvedFee[1] <= employer.feeStructure.max * 100]_vars

\* C10: called with a zero or negative amount, the fee function fails with
\* InvalidAmount: it returns no fee.
C10_NoFeeForNonPositive ==
    (calc.employer # NoEmployer /\ ~IsNaN(calc.amt) /\ calc.amt[1] <= 0)
        => ~(calc.done /\ ~IsNaN(calc.out))

\* C11: a failed workflow transition pushes a notification of type error and
\* leaves the ledger unchanged; here the cancellation of the step-up modal.
C11_CancelPushesError ==
    [][onCancel => (ErrorStep /\ ledger' = ledger)]_vars

\* the entry of the catalogue with this id
voucherOf(id) == mockVouchers[CHOOSE i \in DOMAIN mockVouchers : mockVouchers[i].id = id]

\* a step that pushes the toast of a successful purchase
PurchaseSuccessStep ==
    /\ Len(notifications') = Len(notifications) + 1
    /\ notifications'[Len(notifications')].type = "success"
    /\ notifications'[Len(notifications')].message[1] = "purchased successfully!"

\* the toasts on screen that report a successful purchase of this voucher
PurchasedToasts(id) ==
    {i \in DOMAIN notifications :
        notifications[i].message = PurchasedMsg(voucherOf(id))}

\* C12: the stock of every voucher is >= 0 after any sequence of purchases,
\* and a purchase of a voucher whose stock is 0 is refused: it pushes no
\* success notification and creates no transaction.
C12_NoPurchaseAtStockZero ==
    /\ [](\A id \in VoucherIds : stock[id] >= 0)
    /\ [][\A id \in BoughtVouchers :
            (handlePurchaseOf(voucherOf(id)) /\ stock[id] = 0)
                => (~PurchaseSuccessStep /\ ledger' = ledger)]_vars

\* C13: a successful purchase of a voucher with stock > 0 takes exactly one
\* item off its stock and appends exactly one transaction of type voucher,
\* status completed, the voucher's price as amount and fee 0.
C13_PurchaseDecrementsStock ==
    [][\A id \in BoughtVouchers :
          (handlePurchaseOf(voucherOf(id)) /\ PurchaseSuccessStep /\ stock[id] > 0)
              => /\ stock' = [stock EXCEPT ![id] = @ - 1]
                 /\ Len(ledger') = Len(ledger) + 1
                 /\ SubSeq(ledger', 1, Len(ledger)) = ledger
                 /\ LET tx == ledger'[Len(ledger')]
                    IN  /\ tx.type = "voucher"
                        /\ tx.status = "completed"
                        /\ tx.amount = voucherOf(id).price
                        /\ tx.fee = 0]_vars

\* C14: of the purchases made of a voucher that started with a stock of 1,
\* exactly one succeeds: two success toasts of that voucher are never on
\* screen together, and after the success its stock is 0.
C14_OneSuccessAtStockOne ==
    \A id \in BoughtVouchers :
        calc.stock0[id] = 1
            => /\ Cardinality(PurchasedToasts(id)) <= 1
               /\ (Cardinality(PurchasedToasts(id)) = 1 => stock[id] = 0)

\* the whole days elapsed since the first of the month that holds t
elapsedWholeDays(t) == (t % (UnitsPerDay * DaysPerMonth)) \div UnitsPerDay

\* the month that holds t
periodOf(t) == t \div (UnitsPerDay * DaysPerMonth)

EarnCase == calc.done /\ calc.u # NoUser /\ calc.employer # NoEmployer

\* C15: the ceiling displayed is elapsed whole days * 8 * hourlyRate *
\* advanceCap for every advanceCap of 0..1, advanceCap 0 (ceiling 0) included
\* (available is in hundredths of a rand, advanceCap in percent).
C15_CeilingIsCapOfEarned ==
    EarnCase
        => /\ calc.earned1 = elapsedWholeDays(calc.t1) * DailyHours * calc.u.hourlyRate
           /\ calc.available1 = elapsedWholeDays(calc.t1) * DailyHours
                                    * calc.u.hourlyRate * calc.employer.advanceCap

\* C16: earnedToDate and the ceiling are never negative; of two times of one
\* calendar month the later has the larger or equal earnedToDate and ceiling;
\* on the first day of every month both are 0.
C16_EarnedMonotoneInPeriod ==
    calc.done
        => /\ calc.earned1 >= 0 /\ calc.available1 >= 0
           /\ calc.earned2 >= 0 /\ calc.available2 >= 0
           /\ (periodOf(calc.t1) = periodOf(calc.t2) /\ calc.t1 <= calc.t2)
                 => (calc.earned1 <= calc.earned2 /\ calc.available1 <= calc.available2)
           /\ \A d \in 0..(UnitsPerDay - 1) :
                 /\ calc.t1 % (UnitsPerDay * DaysPerMonth) = d
                       => (calc.earned1 = 0 /\ calc.available1 = 0)
                 /\ calc.t2 % (UnitsPerDay * DaysPerMonth) = d
                       => (calc.earned2 = 0 /\ calc.available2 = 0)

\* the second month begins at t1 with nothing earned, and by t2, later in that
\* month, user 1 has earned something of which a quarter can be advanced
C16_Witness ==
    /\ EarnCase
    /\ calc.u.hourlyRate = 150 /\ calc.employer.advanceCap = 25
    /\ periodOf(calc.t1) = 1 /\ elapsedWholeDays(calc.t1) = 0
    /\ periodOf(calc.t2) = 1 /\ elapsedWholeDays(calc.t2) > 0
    /\ calc.earned1 = 0 /\ calc.available1 = 0
    /\ calc.earned2 = elapsedWholeDays(calc.t2) * 1200
    /\ calc.available2 = calc.earned2 * 25

\* the toasts of the queue that a step removes before their expiry is due
RemovedEarly ==
    {i \in DOMAIN notifications :
        /\ now < notifications[i].timestamp + NotifTimeout
        /\ \A j \in DOMAIN notifications' : notifications'[j].id # notifications[i].id}

\* C17: a notification pushed at T stays in the queue through T+4 unless the
\* user dismisses it (a click dismisses the one toast clicked), and no
\* notification is in the queue at T+6 or later.
C17_PresentUntilExpiry ==
    /\ [](\A i \in DOMAIN notifications :
              now <= notifications[i].timestamp + NotifTimeout)
    /\ [][/\ Cardinality(RemovedEarly) <= 1
          /\ (RemovedEarly # {} => removeNotification)]_vars

\* C18: no two notifications of the queue share an id, and the ids do not
\* decrease along the queue.
C18_UniqueOrderedIds ==
    \A i, j \in DOMAIN notifications :
        i < j => /\ notifications[i].id # notifications[j].id
                 /\ parseFloat(notifications[i].id)[1] <= parseFloat(notifications[j].id)[1]

\* the ids removeNotification is called with: those of the pending expiry
\* timers, those of the toasts on screen, and one no notification ever had
RemovedIds ==
    {t.id : t \in notifTimers} \cup {notifications[i].id : i \in DOMAIN notifications}
        \cup {toString(now + NotifTimeout + 1)}

\* C19: removing an id that is not in the queue leaves the queue as it is,
\* and removing an id twice gives the queue that removing it once gives.
C19_RemoveIdempotent ==
    \A id \in RemovedIds :
        LET once == filterOut(notifications, id)
        IN  /\ filterOut(once, id) = once
            /\ (\A i \in DOMAIN notifications : notifications[i].id # id)
                  => once = notifications

\* the expiry timer of a dismissed toast is due while another toast is on
\* screen
C19_Witness ==
    /\ notifications # <<>>
    /\ \E t \in notifTimers :
          /\ t.at <= now
          /\ \A i \in DOMAIN notifications : notifications[i].id # t.id

\* a notification pushed at T is in the queue
PushedAt(T) == \E i \in DOMAIN notifications : notifications[i].timestamp = T

\* C20: every notification pushed (early enough for its expiry to fall within
\* the clock's range) is eventually out of the queue, whatever the user does
\* or leaves undone, whether a step-up is pending or scanning and also after
\* logout; and the firing of an expiry timer changes nothing of the session,
\* the advance workflow, the stock or the ledger.
C20_ExpiryIndependent ==
    /\ \A T \in 0..(MaxNow - NotifTimeout) : PushedAt(T) ~> ~PushedAt(T)
    /\ [][NotifTimerFires
            => UNCHANGED <<user, token, isAdmin, activeTab, amount, paymentMethod,
                           showBiometric, scanning, scanTimers, stock, ledger>>]_vars

\* the toast of the login has expired while the scan of a step-up, started
\* before the expiry was due, is still running
C20_Witness ==
    /\ now = NotifTimeout
    /\ showBiometric /\ scanning
    /\ Len(scanTimers) = 1 /\ Head(scanTimers).at = now + 1
    /\ notifications = <<>> /\ notifTimers = {}

\* two letters that are equal up to their case
sameLetter(a, b) ==
    \/ a = b
    \/ \E k \in DOMAIN UpperCase :
          {a, b} = {UpperCase[k], LowerCase[k]}

\* term occurs in text as a substring, letters compared up to their case
containsIgnoringCase(text, term) ==
    \E off \in 0..(Len(text) - Len(term)) :
        \A k \in 1..Len(term) : sameLetter(text[off + k], term[k])

\* the entry i of the catalogue is one the search is to return
wanted(i) ==
    /\ calc.category \in {"all", mockVouchers[i].category}
    /\ \/ containsIgnoringCase(mockVoucherChars[i].name, calc.searchTerm)
       \/ containsIgnoringCase(mockVoucherChars[i].provider, calc.searchTerm)

\* C21: the search returns exactly the entries of the catalogue whose name or
\* provider contains the term, case ignored, and whose category is the one
\* selected (any category for 'all'), in the order of the catalogue; the
\* catalogue and every stock stay as they were.
C21_SearchFilters ==
    calc.done
        => /\ \A i \in DOMAIN mockVouchers :
                 wanted(i) <=> (\E k \in DOMAIN calc.out : calc.out[k] = i)
           /\ \A k, l \in DOMAIN calc.out : k < l => calc.out[k] < calc.out[l]
           /\ stock = mockStock

\* the term "AIRtime" under category mobile finds the two airtime vouchers
C21_Witness ==
    /\ calc.done
    /\ calc.category = "mobile"
    /\ calc.searchTerm = <<"A", "I", "R", "t", "i", "m", "e">>
    /\ calc.out = <<1, 3>>

\* the backend is unreachable or answers with an error
BackendUnavailable ==
    \/ calc.outcome.fetch = "rejected"
    \/ calc.outcome.status < 200
    \/ calc.outcome.status > 299
    \/ calc.outcome.json = "invalid"

\* the responses held in memory
FixtureResponses ==
    {[token |-> "mock-jwt-token", user |-> mockUsers[1], success |-> TRUE],
     [array |-> mockVouchers], [array |-> mockTransactions],
     [score |-> 750, maxScore |-> 850],
     [success |-> TRUE]}

\* C22: when the backend is unreachable or answers with an error, the call of
\* ApiService resolves (it does not reject) with a response of the in-memory
\* fixtures, and no notification of type error is pushed.
C22_FallbackToFixture ==
    (calc.done /\ BackendUnavailable)
        => /\ ~calc.out.rejected
           /\ calc.out.value \in FixtureResponses
           /\ \A i \in DOMAIN notifications : notifications[i].type # "error"

\* the login of a user whose request found no network went on with the
\* fixture's user
C22_Witness ==
    /\ calc.done
    /\ calc.endpoint = LoginEndpoint
    /\ calc.outcome.fetch = "rejected"
    /\ user = mockUsers[1]
    /\ token = "mock-jwt-token"
    /\ Len(notifications) = 1
    /\ notifications[1].type = "success"

\* the queue without its entry i
without(q, i) == SubSeq(q, 1, i - 1) \o SubSeq(q, i + 1, Len(q))

\* C23: a removal, by a click on a toast or by an expiry timer, takes at most
\* the one notification it is for out of the queue: all others stay, in the
\* order they had.
C23_RemovesOnlyItsOwn ==
    [][(removeNotification \/ NotifTimerFires)
         => \/ notifications' = notifications
            \/ \E i \in DOMAIN notifications :
                  notifications' = without(notifications, i)]_vars

\* C24: every approval is the one approval of a submission that was not
\* cancelled: it comes from the submission itself (no step-up) or from the
\* scan of a step-up modal that was not cancelled.  A modal runs at most one
\* scan, so the approvals then never outnumber such submissions.
C24_OneApprovalPerSubmission ==
    [][ApprovalStep
         => \/ handleSubmit
            \/ ScanTimerFires /\ ~Head(scanTimers).cancelled]_vars

\* C25: with a user whose biometricEnabled is true every approval is the
\* success of a step-up scan; a scan is started only in the step-up modal,
\* and the modal is opened only by a submission: no path from the form to an
\* approval goes round the step-up.
C25_StepUpPrecedesApproval ==
    /\ [][(ApprovalStep /\ user # NoUser /\ user.biometricEnabled)
            => (ScanTimerFires /\ Head(scanTimers).at <= now)]_vars
    /\ [][handleBiometric => (showBiometric /\ user.biometricEnabled)]_vars
    /\ [][(~showBiometric /\ showBiometric') => handleSubmit]_vars

\* user 1 has an approval on screen, the modal has closed and no scan is left
C25_Witness ==
    /\ user = mockUsers[1]
    /\ activeTab = "advance"
    /\ HasApprovedToast
    /\ ~showBiometric /\ ~scanning
    /\ scanTimers = <<>>
    /\ amount = <<>>

\* C26: logout tears the session down (no user, no token, not admin, no API
\* token, the dashboard tab), and while nobody is logged in no advance is
\* approved, whatever scan was in progress at the logout.
C26_LogoutTearsDown ==
    /\ [][logout => /\ user' = NoUser
                    /\ token' = NoToken
                    /\ ~isAdmin'
                    /\ apiToken' = NoToken
                    /\ activeTab' = "dashboard"]_vars
    /\ [][user = NoUser => ~ApprovalStep]_vars

\* C27: a change of the Biometric Authentication switch changes
\* user.biometricEnabled to the switch's new value, which then gates the
\* submissions that follow.
C27_SwitchSetsUserFlag ==
    [][setBiometricEnabled
         => (user' # NoUser /\ user'.biometricEnabled = biometricEnabled')]_vars

====
